---- MODULE Spec2Model ----
(***************************************************************************)
(* Model of src/parsing/parse_imdb.py: the filter validator                *)
(* (get_html_params), the lazy pagination generator (parse_imdb) with its  *)
(* per-item detail extraction, and the consumer loop of main that streams  *)
(* the records to the tab-separated output file.                           *)
(*                                                                         *)
(* Python values are represented as follows.  A str is the sequence of its *)
(* tokens (words, separators, single characters for dates); '' is << >>.   *)
(* None is the reserved value None below.  An optional float (the rating   *)
(* arguments, in tenths) is a set: {} for None, {t} for the value t/10.    *)
(***************************************************************************)
EXTENDS Integers, Sequences, FiniteSets, TLC

\* ------------------------------------------------------------------ bounds
\* Number of items the mocked catalogue serves (listing offsets 1..MaxItems).
MaxItems == 2
\* Largest number of containers the mocked site puts on one listing page.
MaxPageLen == 2
\* Listing requests one crawl may issue before the model stops following it
\* (the loop of parse_imdb is unbounded when a page comes back empty).
MaxListingFetches == 2

\* -------------------------------------------------------- python helpers
None == <<"<None>">>
NoneF == {}

\* bool(x) of a str or None
Truthy(x) == x # None /\ x # << >>
\* bool(x) of an optional float: None and 0.0 are falsy
TruthyF(x) == x # NoneF /\ x # {0}
\* x or d
Or(x, d) == IF Truthy(x) THEN x ELSE d
OrF(x, d) == IF TruthyF(x) THEN x ELSE d
ValF(x) == CHOOSE t \in x : TRUE

RECURSIVE Join(_, _)
\* sep.join(strs)
Join(strs, sep) ==
    IF strs = << >> THEN << >>
    ELSE IF Len(strs) = 1 THEN strs[1]
    ELSE strs[1] \o sep \o Join(Tail(strs), sep)

RECURSIVE SplitAcc(_, _, _, _)
SplitAcc(s, seps, cur, acc) ==
    IF s = << >> THEN Append(acc, cur)
    ELSE IF s[1] \in seps THEN SplitAcc(Tail(s), seps, << >>, Append(acc, cur))
    ELSE SplitAcc(Tail(s), seps, Append(cur, s[1]), acc)

\* s.split(sep): every separator token cuts, empty pieces are kept
SplitOn(s, sep) == SplitAcc(s, {sep}, << >>, << >>)

Whitespace == {" ", "\n"}
\* s.split(): cuts on whitespace runs, empty pieces are dropped
SplitWs(s) == SelectSeq(SplitAcc(s, Whitespace, << >>, << >>), LAMBDA p : p # << >>)

RECURSIVE LStrip(_)
LStrip(s) == IF s # << >> /\ s[1] \in Whitespace THEN LStrip(Tail(s)) ELSE s
RECURSIVE RStrip(_)
RStrip(s) ==
    IF s # << >> /\ s[Len(s)] \in Whitespace THEN RStrip(SubSeq(s, 1, Len(s) - 1)) ELSE s
\* s.strip()
Strip(s) == LStrip(RStrip(s))

\* token.lower() on the tokens the model uses
LowerTok(t) ==
    CASE t = "Feature" -> "feature"
      [] t = "Comedy" -> "comedy"
      [] t = "Drama" -> "drama"
      [] OTHER -> t
Lower(s) == [i \in 1..Len(s) |-> LowerTok(s[i])]

Digits == {"0", "1", "2", "3", "4", "5", "6", "7", "8", "9"}
\* s.isdigit(): non-empty and every character a digit
IsDigit(s) == s # << >> /\ \A i \in 1..Len(s) : s[i] \in Digits
\* s[a:b] with 0-based python bounds, clipped to the string
Slice(s, a, b) ==
    LET hi == IF b < Len(s) THEN b ELSE Len(s)
    IN  IF a >= hi THEN << >> ELSE SubSeq(s, a + 1, hi)

\* ------------------------------------------------------------ vocabulary
TITLE_TYPES_SHORT == {<<"feature">>, <<"tv_movie">>}
TITLE_TYPES_WORDS == {"Feature", "Film", "TV", "Movie", "Series"}
GENRES == {<<"comedy">>, <<"drama">>}
COUNTRY_NAMES == {<<"Russia">>, <<"United", " ", "States">>}
COUNTRY_ABBRS == {<<"ru">>, <<"us">>}

MAX_FILMS == 1000
INFO_FIELDS_WithLink ==
    <<"index", "name", "link", "genres", "rating", "type", "stars", "details",
      "box_office", "tech_specs">>
INFO_FIELDS ==
    <<"index", "name", "genres", "rating", "type", "stars", "details",
      "box_office", "tech_specs">>

\* ------------------------------------------------------- is_date_correct
is_date_correct_NoSeparators(date) ==
    /\ Len(date) = 10
    /\ IsDigit(Slice(date, 0, 4))
    /\ IsDigit(Slice(date, 5, 7))
    /\ IsDigit(Slice(date, 8, 10))

is_date_correct(date) ==
    /\ Len(date) = 10
    /\ IsDigit(Slice(date, 0, 4))
    /\ IsDigit(Slice(date, 5, 7))
    /\ IsDigit(Slice(date, 8, 10))
    /\ date[5] = "-"
    /\ date[8] = "-"

\* ------------------------------------------------------- get_html_params
\* f'{round(x, 1)}' of a float given in tenths: integer part, '.', one digit
FormatRating(t) == <<t \div 10, ".", t % 10>>

Raised(msg, args) == [raised |-> TRUE, msg |-> msg, params |-> << >>, args |-> args]
Returned(params, args) == [raised |-> FALSE, msg |-> "", params |-> params, args |-> args]

\* the title_types block: the stripped, lower-cased pieces
TitleTypePieces(args) ==
    LET pieces == SplitOn(args.title_types, ",")
    IN  [i \in 1..Len(pieces) |-> Lower(Strip(pieces[i]))]

ParamsTitleTypes(args, params) ==
    IF Truthy(args.title_types)
    THEN params @@ ("title_type" :> Join(TitleTypePieces(args), <<",">>))
    ELSE params

ParamsReleaseDate(args, params) ==
    IF Truthy(args.release_date_from) \/ Truthy(args.release_date_to)
    THEN params @@ ("release_date" :>
             Join(<<Or(args.release_date_from, << >>), Or(args.release_date_to, << >>)>>,
                  <<",">>))
    ELSE params

ParamsGenres(args, params) ==
    IF Truthy(args.genres) THEN params @@ ("genres" :> SplitWs(args.genres)) ELSE params

\* called with the namespace as the rating block left it
ParamsUserRating(args, params) ==
    IF TruthyF(args.min_user_rating) \/ TruthyF(args.max_user_rating)
    THEN params @@ ("user_rating" :>
             <<FormatRating(ValF(args.min_user_rating)), ",",
               FormatRating(ValF(args.max_user_rating))>>)
    ELSE params

ParamsCountries(args, params) ==
    IF Truthy(args.countries) THEN params @@ ("countries" :> args.countries) ELSE params

\* float(x >= 0.) and float(x) <= 10.
RatingInRange(x) == ValF(x) >= 0 /\ ValF(x) <= 100

\* args.min_user_rating = args.min_user_rating or 1.   (and the same for max):
\* the namespace is overwritten once the rating block is entered
ArgsAfterRating(args) ==
    IF TruthyF(args.min_user_rating) \/ TruthyF(args.max_user_rating)
    THEN [args EXCEPT !.min_user_rating = OrF(args.min_user_rating, {10}),
                      !.max_user_rating = OrF(args.max_user_rating, {100})]
    ELSE args

get_html_params(args) ==
    LET badType ==
            /\ Truthy(args.title_types)
            /\ \E i \in 1..Len(TitleTypePieces(args)) :
                   TitleTypePieces(args)[i] \notin TITLE_TYPES_SHORT
        badDate ==
            \/ Truthy(args.release_date_from) /\ ~is_date_correct(args.release_date_from)
            \/ Truthy(args.release_date_to) /\ ~is_date_correct(args.release_date_to)
        badGenre ==
            /\ Truthy(args.genres)
            /\ \E i \in 1..Len(SplitWs(args.genres)) :
                   Lower(SplitWs(args.genres)[i]) \notin GENRES
        ratingGiven == TruthyF(args.min_user_rating) \/ TruthyF(args.max_user_rating)
        args2 == ArgsAfterRating(args)
        badRating ==
            /\ ratingGiven
            /\ ~(RatingInRange(args2.min_user_rating) /\ RatingInRange(args2.max_user_rating))
        badCountry ==
            /\ Truthy(args.countries)
            /\ args.countries \notin COUNTRY_NAMES
            /\ args.countries \notin COUNTRY_ABBRS
    IN  IF badType THEN Raised("isn't one of available types", args)
        ELSE IF badDate THEN Raised("Date must be in YYYY-MM-DD format", args)
        ELSE IF badGenre THEN Raised("isn't one of available genres", args)
        ELSE IF badRating
             THEN Raised("Min user rating must be a number from 0 to 10", args2)
        ELSE IF badCountry THEN Raised("Unknown country", args2)
        ELSE Returned(
                 ParamsCountries(args2,
                   ParamsUserRating(args2,
                     ParamsGenres(args,
                       ParamsReleaseDate(args,
                         ParamsTitleTypes(args, << >>)))))
                 @@ ("start" :> 1),
                 args2)

\* ------------------------------------------------------------ handle_block
RECURSIVE RemoveSub(_, _)
\* s.replace(sub, '')
RemoveSub(s, sub) ==
    IF Len(s) < Len(sub) \/ sub = << >> THEN s
    ELSE IF SubSeq(s, 1, Len(sub)) = sub
         THEN RemoveSub(SubSeq(s, Len(sub) + 1, Len(s)), sub)
         ELSE <<s[1]>> \o RemoveSub(Tail(s), sub)

SeeMore == <<"See", " ", "more", " ", "»">>

\* ' '.join(tag.text.split()).replace('See more »', '')
NormalizeBlock(text) == RemoveSub(Join(SplitWs(text), <<" ">>), SeeMore)

\* block.blocks: the texts of the div.txt-block elements of one part
handle_block(block) ==
    Join([i \in 1..Len(block.blocks) |-> NormalizeBlock(block.blocks[i])], <<"\\n">>)

\* -------------------------------------------------- detail extraction
Unbound == <<"<unbound>">>
NoHeading == "<no h2/h3>"

\* ''.join(ch for ch in text if ch.isalpha() or ch == ' ') on the model's tokens
AlphaTok(t) ==
    CASE t = "(2011-2019)" -> << >>
      [] t = "2010" -> << >>
      [] t = "\n" -> << >>
      [] t = "Mini-Series" -> <<"MiniSeries">>
      [] OTHER -> <<t>>
RECURSIVE AlphaOnly(_)
AlphaOnly(s) == IF s = << >> THEN << >> ELSE AlphaTok(s[1]) \o AlphaOnly(Tail(s))

\* lines 157-161: the type of the title
ExtractType(doc) ==
    IF doc.release = None THEN None
    ELSE LET words == SplitWs(Strip(AlphaOnly(doc.release)))
             kept == SelectSeq(words, LAMBDA w : Len(w) = 1 /\ w[1] \in TITLE_TYPES_WORDS)
         IN  Or(Join(kept, <<" ">>), <<"Feature", " ", "Film">>)

RowText(row) == Join([i \in 1..Len(row) |-> row[i].text], << >>)
\* 'Stars' in row.text
HasStars(row) == \E i \in 1..Len(RowText(row)) : RowText(row)[i] \in {"Stars:", "Stars"}

RECURSIVE RowStars(_)
\* lines 168-176: the children of one row up to the first span, h4 skipped
RowStars(children) ==
    IF children = << >> THEN << >>
    ELSE IF children[1].name = "h4" THEN RowStars(Tail(children))
    ELSE IF children[1].name = "span" THEN << >>
    ELSE children[1].text \o RowStars(Tail(children))

RECURSIVE CreditStars(_)
CreditStars(credit) ==
    IF credit = << >> THEN << >>
    ELSE (IF HasStars(credit[1]) THEN RowStars(credit[1]) ELSE << >>)
         \o CreditStars(Tail(credit))

\* lines 163-177 as written: an empty credit list leaves the local variable
\* stars as the previous iteration left it (unbound in the first iteration)
ExtractStars(doc, stars) ==
    IF doc.credit # << >> THEN Strip(CreditStars(doc.credit)) ELSE stars

\* lines 179-180: str(film_soup.find('div', id='titleDetails')).split('<hr/>');
\* without the container the string is 'None', one part with no heading in it
DetailsParts(doc) ==
    IF doc.hasTitleDetails THEN doc.parts
    ELSE <<[heading |-> NoHeading, blocks |-> << >>]>>

RECURSIVE BlocksLoop(_, _)
\* lines 181-190: acc is [details, box_office, tech_specs, raised]
BlocksLoop(parts, acc) ==
    IF parts = << >> \/ acc.raised THEN acc
    ELSE LET block == parts[1]
         IN  IF block.heading = NoHeading
             THEN [acc EXCEPT !.raised = TRUE]
             ELSE BlocksLoop(Tail(parts),
                    IF block.heading = "Details"
                    THEN [acc EXCEPT !.details = handle_block(block)]
                    ELSE IF block.heading = "Box Office"
                    THEN [acc EXCEPT !.box_office = handle_block(block)]
                    ELSE IF block.heading = "Technical Specs"
                    THEN [acc EXCEPT !.tech_specs = handle_block(block)]
                    ELSE acc)

ExtractBlocks(doc) ==
    BlocksLoop(DetailsParts(doc),
               [details |-> None, box_office |-> None, tech_specs |-> None,
                raised |-> FALSE])

\* ------------------------------------------------------- the mocked site
DetailsPart ==
    [heading |-> "Details",
     blocks |-> << <<"Country:", " ", " ", "USA", "\n", "See", " ", "more", " ", "»">>,
                   <<"Language:", " ", "English">> >>]
BoxOfficePart == [heading |-> "Box Office", blocks |-> << <<"Budget:", " ", "$1">> >>]
TechSpecsPart ==
    [heading |-> "Technical Specs", blocks |-> << <<"Runtime:", "\n", " ", "90", " ", "min">> >>]
StorylinePart == [heading |-> "Storyline", blocks |-> << <<"Plot">> >>]
HeadlessPart == [heading |-> NoHeading, blocks |-> << <<"Ad">> >>]

StarsRow ==
    <<[name |-> "h4", text |-> <<"Stars:">>], [name |-> "text", text |-> <<"\n">>],
      [name |-> "a", text |-> <<"Ann">>], [name |-> "text", text |-> <<",", " ">>],
      [name |-> "a", text |-> <<"Bob">>], [name |-> "text", text |-> <<" ">>],
      [name |-> "span", text |-> <<"|">>], [name |-> "a", text |-> <<"See full cast">>]>>
DirectorRow ==
    <<[name |-> "h4", text |-> <<"Director:">>], [name |-> "a", text |-> <<"Dan">>]>>

\* One catalogue entry: what its listing container and its detail document hold.
ItemFull ==
    [genre |-> <<"\n", "Comedy", " ">>, rating |-> <<"7.5">>,
     release |-> <<"TV", " ", "Series", " ", "(2011-2019)", "\n">>,
     credit |-> <<DirectorRow, StarsRow>>,
     hasTitleDetails |-> TRUE, parts |-> <<DetailsPart, BoxOfficePart, TechSpecsPart>>]
ItemNoCredit ==
    [genre |-> None, rating |-> None, release |-> None,
     credit |-> << >>,
     hasTitleDetails |-> TRUE, parts |-> <<DetailsPart, StorylinePart, BoxOfficePart>>]
ItemNoStars ==
    [genre |-> <<"Drama">>, rating |-> None,
     release |-> <<"12", " ", "May", " ", "2010">>,
     credit |-> <<DirectorRow>>,
     hasTitleDetails |-> TRUE, parts |-> <<StorylinePart>>]
ItemNoTitleDetails ==
    [genre |-> <<"Drama">>, rating |-> <<"6.1">>, release |-> None,
     credit |-> <<StarsRow>>,
     hasTitleDetails |-> FALSE, parts |-> << >>]
ItemHeadlessPart ==
    [genre |-> None, rating |-> <<"6.1">>, release |-> None,
     credit |-> <<StarsRow>>,
     hasTitleDetails |-> TRUE, parts |-> <<DetailsPart, HeadlessPart>>]
ItemSamples == {ItemFull, ItemNoCredit, ItemNoStars, ItemNoTitleDetails, ItemHeadlessPart}

Sites == [1..MaxItems -> ItemSamples]

RECURSIVE DigitsOf(_)
\* str(n) as characters
DigitsOf(n) == IF n < 10 THEN <<ToString(n)>> ELSE DigitsOf(n \div 10) \o <<ToString(n % 10)>>
\* str(n) with a thousands separator
WithComma(n) ==
    IF n < 1000 THEN DigitsOf(n)
    ELSE LET r == n % 1000
         IN  DigitsOf(n \div 1000) \o <<",">> \o
             (IF r < 10 THEN <<"0", "0">> ELSE IF r < 100 THEN <<"0">> ELSE << >>) \o DigitsOf(r)

\* desc_span.text of the search page, as its .split() words
NoResults == << <<"No">>, <<"results.">> >>
Unparsable == << <<"titles.">> >>
DescOf(n) == << <<"1", "-">> \o DigitsOf(n), <<"of">>, WithComma(n), <<"titles.">> >>
ReportedCounts == (1..MaxItems) \cup {MAX_FILMS + 1}
DescSamples == {NoResults, Unparsable} \cup {DescOf(n) : n \in ReportedCounts}

RECURSIVE ToInt(_)
\* int(s) of a digit string
ToInt(s) ==
    IF s = << >> THEN 0
    ELSE 10 * ToInt(SubSeq(s, 1, Len(s) - 1))
         + (CHOOSE d \in 0..9 : ToString(d) = s[Len(s)])

\* line 221: [n.replace(',', '') for n in desc.split() if n.replace(',', '').isdigit()]
CountTokens(desc) ==
    SelectSeq([i \in 1..Len(desc) |-> RemoveSub(desc[i], <<",">>)], IsDigit)

Min(a, b) == IF a <= b THEN a ELSE b

\* The listing pages the site may answer a request at offset start with: no
\* div.lister-list at all, or a list of 0..MaxPageLen consecutive containers.
ListingResponses(start) ==
    {[hasList |-> FALSE, start |-> start, len |-> 0]} \cup
    {[hasList |-> TRUE, start |-> start, len |-> l] :
        l \in 0..(IF start > MaxItems THEN 0 ELSE Min(MaxPageLen, MaxItems - start + 1))}

\* ------------------------------------------------------ filter criteria
Chars10(a, b, c, d, e, f, g, h, i, j) == <<a, b, c, d, e, f, g, h, i, j>>
DateOk == Chars10("2", "0", "2", "0", "-", "0", "1", "-", "3", "1")
DateSlashes == Chars10("2", "0", "2", "0", "/", "0", "1", "/", "3", "1")
DateLetter == Chars10("2", "0", "x", "0", "-", "0", "1", "-", "3", "1")
DateShort == <<"2", "0", "2", "0", "-", "1", "-", "3", "1">>
DateSamples == {DateOk, DateSlashes, DateLetter, DateShort, << >>}
TitleTypeSamples == {<<"Feature", ",", " ", "tv_movie">>, <<"feature", ",", "bogus">>}
GenreSamples == {<<"Comedy", " ", "drama">>, <<"comedy", " ", "bogus">>}
RatingSamples == {{0}, {70}, {-5}, {105}}
CountrySamples == {<<"Russia">>, <<"us">>, <<"Narnia">>}

NoCriteria ==
    [title_types |-> None, release_date_from |-> None, release_date_to |-> None,
     genres |-> None, min_user_rating |-> NoneF, max_user_rating |-> NoneF,
     countries |-> None]

\* The command lines the model runs: one filter at a time, every pair of rating
\* bounds, and two lines that set several filters.
CriteriaSamples ==
    {NoCriteria}
    \cup {[NoCriteria EXCEPT !.title_types = v] : v \in TitleTypeSamples}
    \cup {[NoCriteria EXCEPT !.release_date_from = v] : v \in DateSamples}
    \cup {[NoCriteria EXCEPT !.release_date_to = v] : v \in DateSamples}
    \cup {[NoCriteria EXCEPT !.genres = v] : v \in GenreSamples}
    \cup {[NoCriteria EXCEPT !.min_user_rating = a, !.max_user_rating = b] :
             a \in RatingSamples \cup {NoneF}, b \in RatingSamples \cup {NoneF}}
    \cup {[NoCriteria EXCEPT !.countries = v] : v \in CountrySamples}
    \cup {[title_types |-> <<"Feature", ",", " ", "tv_movie">>,
           release_date_from |-> DateOk, release_date_to |-> None,
           genres |-> <<"Comedy", " ", "drama">>,
           min_user_rating |-> {70}, max_user_rating |-> NoneF,
           countries |-> c] : c \in {<<"us">>, <<"Narnia">>}}

\* ----------------------------------------------------------------- state
VARIABLES
    pc,             \* position of the run: see the actions
    site,           \* the mocked catalogue: item number -> catalogue entry
    criteria,       \* the command line of the current run, as given
    args,           \* the argparse namespace (get_html_params overwrites it)
    params,         \* html_params, the dict main and parse_imdb share
    n_films,        \* main: the clamped result count
    films_parsed,   \* parse_imdb: local counter
    page,           \* parse_imdb: the listing page being iterated
    idx,            \* parse_imdb: position of the for loop in the page
    stars,          \* parse_imdb: local variable stars
    film_info,      \* main: the record the generator handed over
    file,           \* the output file at csv_file_path
    error,          \* the exception that ended the run, "" if none
    formFetches,    \* requests of the search form made at import in this run
    countFetches,   \* search requests issued by main in this run
    listingFetches, \* search requests issued by parse_imdb in this run
    detailFetches,  \* title-page requests issued in this run (item numbers)
    yielded         \* the records parse_imdb yielded in this run

vars ==
    <<pc, site, criteria, args, params, n_films, films_parsed, page, idx, stars,
      film_info, file, error, formFetches, countFetches, listingFetches,
      detailFetches, yielded>>

SEPARATOR == <<"\t">>
FILM_INFO_ROOT_ADDRESS == <<"https://www.imdb.com/", "title/">>
NoFile == [exists |-> FALSE, lines |-> << >>]
NoPage == [hasList |-> FALSE, start |-> 0, len |-> 0]
Ended == {"returned", "no_results", "raised"}

\* line 225: SEPARATOR.join(INFO_FIELDS) + '\n'
HeaderLine == Join([i \in 1..Len(INFO_FIELDS) |-> <<INFO_FIELDS[i]>>], SEPARATOR) \o <<"\n">>
\* line 231: SEPARATOR.join([film_info[key] for key in INFO_FIELDS]) + '\n'
RowLine(info) ==
    Join([i \in 1..Len(INFO_FIELDS) |-> info[INFO_FIELDS[i]]], SEPARATOR) \o <<"\n">>

\* lines 141-153: the stub of container number i of the catalogue
StubIndex(i) == Strip(<<"\n", ToString(i), ".", "\n">>)
StubName(i) == Strip(<<"Film", " ", ToString(i), "\n">>)
FilmLink(i) == <<"/", "title", "/", "tt", ToString(i), "/", "?ref_=adv_li_i">>
FilmUrl(i) ==
    LET pieces == SplitOn(FilmLink(i), "/")
    IN  FILM_INFO_ROOT_ADDRESS \o pieces[Len(pieces) - 1]
StubGenre(item) == IF item.genre = None THEN None ELSE Strip(item.genre)
StubRating(item) == IF item.rating = None THEN None ELSE Strip(item.rating)

\* lines 191-202: the yielded dict
Record(i, item, type_, stars_, blocks) ==
    [index |-> StubIndex(i),
     name |-> StubName(i),
     link |-> FilmUrl(i),
     genres |-> Or(StubGenre(item), <<"Null">>),
     rating |-> Or(StubRating(item), <<"Null">>),
     type |-> Or(type_, <<"Null">>),
     stars |-> Or(stars_, <<"Null">>),
     details |-> Or(blocks.details, <<"Null">>),
     box_office |-> Or(blocks.box_office, <<"Null">>),
     tech_specs |-> Or(blocks.tech_specs, <<"Null">>)]

Init ==
    /\ pc = "idle"
    /\ site \in Sites
    /\ criteria = NoCriteria
    /\ args = NoCriteria
    /\ params = << >>
    /\ n_films = 0
    /\ films_parsed = 0
    /\ page = NoPage
    /\ idx = 0
    /\ stars = Unbound
    /\ film_info = << >>
    /\ file = NoFile
    /\ error = ""
    /\ formFetches = 0
    /\ countFetches = 0
    /\ listingFetches = << >>
    /\ detailFetches = << >>
    /\ yielded = << >>

\* The script is started: a fresh process, the file system kept.  The import
\* requests the search form once and loads the vocabulary from it (lines
\* 22-34), then the command line is parsed (lines 236-249).
StartRun ==
    /\ pc \in Ended \cup {"idle"}
    /\ \E c \in CriteriaSamples : criteria' = c /\ args' = c
    /\ pc' = "main"
    /\ params' = << >>
    /\ n_films' = 0
    /\ films_parsed' = 0
    /\ page' = NoPage
    /\ idx' = 0
    /\ stars' = Unbound
    /\ film_info' = << >>
    /\ error' = ""
    /\ formFetches' = 1
    /\ countFetches' = 0
    /\ listingFetches' = << >>
    /\ detailFetches' = << >>
    /\ yielded' = << >>
    /\ UNCHANGED <<site, file>>

\* line 210: html_params = get_html_params(args)
Main_GetHtmlParams ==
    /\ pc = "main"
    /\ LET r == get_html_params(args)
       IN  /\ args' = r.args
           /\ IF r.raised
              THEN /\ pc' = "raised"
                   /\ error' = r.msg
                   /\ UNCHANGED params
              ELSE /\ pc' = "count"
                   /\ params' = r.params
                   /\ UNCHANGED error
    /\ UNCHANGED <<formFetches, site, criteria, n_films, films_parsed, page, idx, stars, film_info,
                   file, countFetches, listingFetches, detailFetches, yielded>>

OpenFile_Keep(f, mode) == [exists |-> TRUE, lines |-> f.lines]

\* open(path, mode): 'w' creates or truncates the file, 'a' keeps what it holds
OpenFile(f, mode) ==
    IF mode = "w" THEN [exists |-> TRUE, lines |-> << >>]
    ELSE [exists |-> TRUE, lines |-> f.lines]

WriteLine_AtStart(f, line) == [f EXCEPT !.lines = <<line>> \o @]

\* out_csv_file.write(line): the line goes to the end of the file
WriteLine(f, line) == [f EXCEPT !.lines = Append(@, line)]

\* lines 212-225: the count request, the clamp, open(..., 'w') and the header
Main_ResolveCount ==
    /\ pc = "count"
    /\ countFetches' = countFetches + 1
    /\ \E desc \in DescSamples :
          IF desc = NoResults
          THEN /\ pc' = "no_results"
               /\ UNCHANGED <<n_films, file, error>>
          ELSE IF CountTokens(desc) = << >>
          THEN /\ pc' = "raised"
               /\ error' = "IndexError"
               /\ UNCHANGED <<n_films, file>>
          ELSE LET n == ToInt(CountTokens(desc)[Len(CountTokens(desc))])
               IN  /\ n_films' = (IF n <= MAX_FILMS THEN n ELSE MAX_FILMS)
                   /\ file' = WriteLine(OpenFile(file, "w"), HeaderLine)
                   /\ pc' = "gen_while"
                   /\ UNCHANGED error
    /\ UNCHANGED <<formFetches, site, criteria, args, params, films_parsed, page, idx, stars,
                   film_info, listingFetches, detailFetches, yielded>>

\* lines 137-140: the while test and the listing request of one page
Gen_While ==
    /\ pc = "gen_while"
    /\ IF films_parsed < n_films
       THEN /\ Len(listingFetches) < MaxListingFetches
            /\ \E resp \in ListingResponses(params["start"]) :
                  /\ listingFetches' = Append(listingFetches, resp)
                  /\ IF resp.hasList
                     THEN /\ page' = resp
                          /\ idx' = 1
                          /\ pc' = "gen_for"
                          /\ UNCHANGED error
                     ELSE /\ pc' = "raised"
                          /\ error' = "AttributeError: lister-list"
                          /\ UNCHANGED <<page, idx>>
       ELSE /\ pc' = "returned"
            /\ UNCHANGED <<listingFetches, page, idx, error>>
    /\ UNCHANGED <<formFetches, site, criteria, args, params, n_films, films_parsed, stars, film_info,
                   file, countFetches, detailFetches, yielded>>

\* lines 140-202: the next container of the page, its detail request, the
\* extraction, and the yield (or the exception that ends the run)
Gen_For ==
    /\ pc = "gen_for"
    /\ IF idx > page.len
       THEN /\ pc' = "gen_while"
            /\ UNCHANGED <<stars, film_info, error, detailFetches, yielded>>
       ELSE LET i == page.start + idx - 1
                type_ == ExtractType(site[i])
                stars_ == ExtractStars(site[i], stars)
                blocks == ExtractBlocks(site[i])
            IN  /\ detailFetches' = Append(detailFetches, i)
                /\ stars' = stars_
                /\ IF blocks.raised
                   THEN /\ pc' = "raised"
                        /\ error' = "AttributeError: heading"
                        /\ UNCHANGED <<film_info, yielded>>
                   ELSE IF stars_ = Unbound
                   THEN /\ pc' = "raised"
                        /\ error' = "UnboundLocalError: stars"
                        /\ UNCHANGED <<film_info, yielded>>
                   ELSE /\ film_info' = Record(i, site[i], type_, stars_, blocks)
                        /\ yielded' = Append(yielded, film_info')
                        /\ pc' = "main_write"
                        /\ UNCHANGED error
    /\ UNCHANGED <<formFetches, site, criteria, args, params, n_films, films_parsed, page, idx,
                   file, countFetches, listingFetches>>

\* lines 226-231: the body of main's for loop
Main_Write ==
    /\ pc = "main_write"
    /\ file' = WriteLine(file, RowLine(film_info))
    /\ pc' = "gen_resume"
    /\ UNCHANGED <<formFetches, site, criteria, args, params, n_films, films_parsed, page, idx, stars,
                   film_info, error, countFetches, listingFetches, detailFetches, yielded>>

\* lines 203-206: the generator is resumed after its yield
Gen_Resume ==
    /\ pc = "gen_resume"
    /\ films_parsed' = films_parsed + 1
    /\ IF films_parsed' >= n_films
       THEN /\ pc' = "returned"
            /\ UNCHANGED <<params, idx>>
       ELSE /\ params' = [params EXCEPT !["start"] = films_parsed' + 1]
            /\ idx' = idx + 1
            /\ pc' = "gen_for"
    /\ UNCHANGED <<formFetches, site, criteria, args, n_films, page, stars, film_info, file, error,
                   countFetches, listingFetches, detailFetches,
                   yielded>>

Next ==
    \/ StartRun
    \/ Main_GetHtmlParams
    \/ Main_ResolveCount
    \/ Gen_While
    \/ Gen_For
    \/ Main_Write
    \/ Gen_Resume

Spec == Init /\ [][Next]_vars

\* ================================================================ claims
InvalidFilterMsgs ==
    {"isn't one of available types", "Date must be in YYYY-MM-DD format",
     "isn't one of available genres", "Min user rating must be a number from 0 to 10",
     "Unknown country"}
\* The run has passed open(csv_file_path, 'w')
Opened ==
    \/ pc \in {"gen_while", "gen_for", "main_write", "gen_resume", "returned"}
    \/ pc = "raised" /\ error \notin InvalidFilterMsgs \cup {"IndexError"}
Validated == pc \notin {"idle", "main"} /\ error \notin InvalidFilterMsgs
DataRows(f) == IF f.lines = << >> THEN << >> ELSE Tail(f.lines)
LastFetch == listingFetches[Len(listingFetches)]
RECURSIVE Containers(_)
\* the containers of the listing pages fetched so far, in document order
Containers(fetches) ==
    IF fetches = << >> THEN << >>
    ELSE Containers(SubSeq(fetches, 1, Len(fetches) - 1)) \o
         [j \in 1..fetches[Len(fetches)].len |-> fetches[Len(fetches)].start + j - 1]
HasStarsRow(item) == \E r \in 1..Len(item.credit) : HasStars(item.credit[r])
HasPart(item, h) ==
    item.hasTitleDetails /\ \E p \in 1..Len(item.parts) : item.parts[p].heading = h

\* C1: once the listing fetched at the current offset has no containers, the
\* crawl is over: parse_imdb issues no further listing request, and it ends by
\* returning, without error, having yielded the containers the pages held.
C1_ShortReadTerminates ==
    /\ \A k \in 1..(Len(listingFetches) - 1) :
          ~(listingFetches[k].hasList /\ listingFetches[k].len = 0)
    /\ (listingFetches # << >> /\ LastFetch.hasList /\ LastFetch.len = 0 /\ pc \in Ended)
          => /\ pc = "returned"
             /\ error = ""
             /\ Len(yielded) = Len(Containers(listingFetches))

\* C2: when every listing page served is non-empty and the pages hold at least
\* n_films containers, the crawl ends having yielded exactly n_films stubs with
\* exactly one detail request per stub, and never yields more than n_films.
C2_ExactN ==
    /\ Opened => Len(yielded) <= n_films
    /\ (/\ Opened /\ pc \in Ended
        /\ \A k \in 1..Len(listingFetches) :
              listingFetches[k].hasList /\ listingFetches[k].len > 0
        /\ Len(Containers(listingFetches)) >= n_films)
           => /\ pc = "returned"
              /\ Len(yielded) = n_films
              /\ Len(detailFetches) = n_films

\* C3 as stated: the header names ten columns, link among them, and every
\* data row carries the record's ten values in that order.
C3_TenColumns ==
    file.exists =>
        /\ file.lines[1] =
              <<"index", "\t", "name", "\t", "link", "\t", "genres", "\t", "rating", "\t",
                "type", "\t", "stars", "\t", "details", "\t", "box_office", "\t",
                "tech_specs", "\n">>
        /\ Opened => \A k \in 1..Len(DataRows(file)) :
              LET y == yielded[k]
              IN  DataRows(file)[k] =
                      Join(<<y.index, y.name, y.link, y.genres, y.rating, y.type, y.stars,
                             y.details, y.box_office, y.tech_specs>>, <<"\t">>) \o <<"\n">>

\* C3 amended: the header names the nine columns index, name, genres, rating,
\* type, stars, details, box_office, tech_specs, and every data row carries
\* the record's nine values of those columns, tab-joined, in that order; the
\* record's link is not written.
C3_NineColumns ==
    file.exists =>
        /\ file.lines[1] =
              <<"index", "\t", "name", "\t", "genres", "\t", "rating", "\t",
                "type", "\t", "stars", "\t", "details", "\t", "box_office", "\t",
                "tech_specs", "\n">>
        /\ Opened => \A k \in 1..Len(DataRows(file)) :
              LET y == yielded[k]
              IN  DataRows(file)[k] =
                      Join(<<y.index, y.name, y.genres, y.rating, y.type, y.stars,
                             y.details, y.box_office, y.tech_specs>>, <<"\t">>) \o <<"\n">>
C3_Witness == Opened /\ Len(file.lines) >= 3

\* C4: a record whose detail document has no credit row with the label Stars
\* has stars = 'Null', and such a document never ends the crawl.
C4_CastAbsence ==
    /\ error # "UnboundLocalError: stars"
    /\ \A k \in 1..Len(yielded) :
          ~HasStarsRow(site[detailFetches[k]]) => yielded[k].stars = <<"Null">>

\* C5: a label with no matching part in the detail document gives 'Null' in
\* its field, and a missing container or a part with another or no heading
\* never ends the crawl.
C5_BlockAbsence ==
    /\ error # "AttributeError: heading"
    /\ \A k \in 1..Len(yielded) :
          LET item == site[detailFetches[k]]
          IN  /\ ~HasPart(item, "Details") => yielded[k].details = <<"Null">>
              /\ ~HasPart(item, "Box Office") => yielded[k].box_office = <<"Null">>
              /\ ~HasPart(item, "Technical Specs") => yielded[k].tech_specs = <<"Null">>

\* a rating bound that is absent or lies in [0,10]
RatingOk(x) == x = NoneF \/ (ValF(x) >= 0 /\ ValF(x) <= 100)

\* C6: with both rating bounds absent or in [0,10], validation does not reject
\* the rating; the query has a user_rating entry exactly when a bound was
\* supplied, each supplied bound is rendered as its own value and only an
\* absent bound takes its default (1.0, 10.0).
C6_RatingFilter ==
    (pc \notin {"idle", "main"}
     /\ RatingOk(criteria.min_user_rating) /\ RatingOk(criteria.max_user_rating))
        => /\ error # "Min user rating must be a number from 0 to 10"
           /\ Validated =>
                 /\ "user_rating" \in DOMAIN params
                        <=> (criteria.min_user_rating # NoneF \/ criteria.max_user_rating # NoneF)
                 /\ "user_rating" \in DOMAIN params =>
                        /\ params["user_rating"][1] =
                              FormatRating(IF criteria.min_user_rating = NoneF THEN 10
                                           ELSE ValF(criteria.min_user_rating))
                        /\ params["user_rating"][3] =
                              FormatRating(IF criteria.max_user_rating = NoneF THEN 100
                                           ELSE ValF(criteria.max_user_rating))

Discovered == Containers(listingFetches)
IsPrefix(a, b) == Len(a) <= Len(b) /\ a = SubSeq(b, 1, Len(a))
\* the file, the yielded records and the requests agree (the state part of C7)
C7_Rows ==
    Opened =>
        /\ file.exists
        /\ file.lines # << >>
        /\ Len(DataRows(file)) = (IF pc = "main_write" THEN Len(yielded) - 1 ELSE Len(yielded))
        /\ \A j \in 1..Len(DataRows(file)) : DataRows(file)[j] = RowLine(yielded[j])
        /\ Len(yielded) <= Len(Discovered)
        /\ \A j \in 1..Len(yielded) :
              /\ yielded[j].index = StubIndex(Discovered[j])
              /\ yielded[j].name = StubName(Discovered[j])
              /\ yielded[j].link = FilmUrl(Discovered[j])
        /\ IsPrefix(detailFetches, Discovered)
        /\ Len(detailFetches) <= Len(DataRows(file)) + 1

\* C7: once the file is open its data rows are the records parse_imdb has
\* yielded so far, in order, all of them but the one main is about to write;
\* the records are those of the containers of the listing pages in page order
\* and document order; a detail request is issued only when every earlier
\* record is in the file; and no step of the run, an aborting one included,
\* changes a row already written.
C7_SinkOrdering ==
    /\ []C7_Rows
    /\ [][(Opened /\ Opened') => IsPrefix(file.lines, file'.lines)]_vars
C7_Witness ==
    /\ pc = "raised"
    /\ Len(DataRows(file)) >= 1
    /\ Len(detailFetches) = Len(DataRows(file)) + 1
    /\ Len(listingFetches) = 2
    /\ \A k \in 1..2 : listingFetches[k].len >= 1

\* C8 as stated: a run that passed validation and ended without error, a run
\* with zero matches included, leaves only its own records in the file.
C8_FullOverwrite ==
    pc \in {"returned", "no_results"} =>
        DataRows(file) = [j \in 1..Len(yielded) |-> RowLine(yielded[j])]

\* C8 amended: a run whose search reports at least one match truncates the
\* file when it opens it, after the count request: from then on the file holds
\* the header and the records of this run only.  A run whose search reports
\* zero matches does not open the file: the file is left as the run found it.
C8_OverwriteOnOpen ==
    /\ [](Opened =>
            /\ file.exists
            /\ file.lines # << >>
            /\ file.lines[1] = HeaderLine
            /\ Len(DataRows(file)) <= Len(yielded)
            /\ \A j \in 1..Len(DataRows(file)) : DataRows(file)[j] = RowLine(yielded[j]))
    /\ [][(pc = "count" /\ pc' = "no_results") => file' = file]_vars
C8_Witness == pc = "no_results" /\ file.exists /\ Len(file.lines) >= 2

\* a date of the form DDDD-DD-DD
WellFormedDate(d) ==
    /\ Len(d) = 10
    /\ \A i \in 1..10 : IF i \in {5, 8} THEN d[i] = "-" ELSE d[i] \in Digits
\* the criteria hold a value that validation must reject
InvalidCriteria(c) ==
    \/ /\ Truthy(c.title_types)
       /\ \E i \in 1..Len(SplitOn(c.title_types, ",")) :
             Lower(Strip(SplitOn(c.title_types, ",")[i])) \notin TITLE_TYPES_SHORT
    \/ \E g \in 1..Len(IF Truthy(c.genres) THEN SplitWs(c.genres) ELSE << >>) :
             Lower(SplitWs(c.genres)[g]) \notin GENRES
    \/ Truthy(c.release_date_from) /\ ~WellFormedDate(c.release_date_from)
    \/ Truthy(c.release_date_to) /\ ~WellFormedDate(c.release_date_to)
    \/ \E x \in c.min_user_rating \cup c.max_user_rating : x < 0 \/ x > 100
    \/ /\ Truthy(c.countries)
       /\ c.countries \notin COUNTRY_NAMES \cup COUNTRY_ABBRS

\* C9: criteria with a title type or genre outside the vocabulary, a malformed
\* date, a rating outside [0,10] or an unknown country make get_html_params
\* raise; the run then has issued no count, listing or detail request (the
\* search form was requested at import, before validation), and validation
\* never touches the output file; a query that is returned carries start = 1.
\* (An empty string stands for a filter that was not supplied.)
C9_ValidationBeforeIO ==
    /\ []((pc \notin {"idle", "main"} /\ InvalidCriteria(criteria)) =>
             /\ pc = "raised"
             /\ error \in InvalidFilterMsgs
             /\ countFetches = 0
             /\ listingFetches = << >>
             /\ detailFetches = << >>)
    /\ [](pc = "count" => params["start"] = 1)
    /\ [][pc = "main" =>
             /\ file' = file
             /\ countFetches' = 0 /\ listingFetches' = << >> /\ detailFetches' = << >>]_vars
C9_Witness ==
    /\ pc = "raised"
    /\ error = "Date must be in YYYY-MM-DD format"
    /\ file.exists
    /\ Len(file.lines) >= 2

\* C10: every listing request of parse_imdb is made at offset 1 + the number
\* of stubs yielded so far, and the offsets of successive listing requests
\* strictly increase.
C10_Cursor ==
    /\ pc = "gen_while" => (params["start"] = films_parsed + 1 /\ films_parsed = Len(yielded))
    /\ \A k \in 1..(Len(listingFetches) - 1) :
          listingFetches[k].start < listingFetches[k + 1].start
====
